---------------------------- MODULE Spec2Model ----------------------------
(***************************************************************************)
(* A model of movie-nexus: the HTTP Range header parser (byte_range.rs),   *)
(* the catalogue builder and served-set index (scanner.rs), the service    *)
(* registration handshake (network.rs) and the request router with the     *)
(* range-aware file-serving engine (main.rs).                              *)
(*                                                                         *)
(* Text is modelled as a sequence of one-character strings.  Unsigned      *)
(* 64-bit integers are modelled with IntBits bits: every comparison,       *)
(* overflow and wrap-around of the code is kept, at a width TLC can count. *)
(***************************************************************************)
EXTENDS Integers, Sequences, FiniteSets, TLC

VARIABLES
    \* --- the Range header parser, applied to one header value -----------
    header_input,       \* the header value handed to parse_range
    parse_result,       \* what parse_range returned for it (or "none" yet)
    \* --- serve_file_range, applied to one (file, range) pair -------------
    range_input,        \* [file_len, range, io]: the call's inputs
    range_output,       \* [result, response, opened, seek_to] (or "none" yet)
    \* --- the server process ---------------------------------------------
    fs,                 \* the directory tree under the served folder
    pc,                 \* where main() is, register_service included
    cb_pc,              \* where the OS thread running registration_callback is
    registration_mutex, \* REGISTRATION_MUTEX: its holder
    in_progress_mutex,  \* REGISTRATION_IN_PROGRESS_MUTEX: its holder
    registration_in_progress, \* the bool REGISTRATION_IN_PROGRESS_MUTEX guards
    spurious,           \* spurious wake-ups of the condition variable so far
    callback_ran,       \* history: registration_callback has written the flag
    catalogue,          \* the Vec<CatalogueItem> scan_directory returned
    served_files,       \* the HashSet<RelativizedPath> of extract_served_files
    request,            \* the request handled last
    io_outcome,         \* what the filesystem calls of that request met
    response,           \* the response given to it
    accessed            \* the filesystem paths that request stat-ed or opened

vars == <<header_input, parse_result, range_input, range_output, fs, pc,
          cb_pc, registration_mutex, in_progress_mutex,
          registration_in_progress, spurious, callback_ran, catalogue,
          served_files, request, io_outcome, response, accessed>>

parserVars == <<header_input, parse_result>>
rangeVars  == <<range_input, range_output>>
serverVars == <<fs, pc, cb_pc, registration_mutex, in_progress_mutex,
                registration_in_progress, spurious, callback_ran, catalogue,
                served_files, request, io_outcome, response, accessed>>

-----------------------------------------------------------------------------
(* Bounds of the model *)

\* Width, in bits, of the model's stand-in for u64.
IntBits == 4
\* Longest header tail (the text after "bytes=") the parser is run on.
MaxTail == 5
\* Longest file the range engine is run on.
MaxLen == 3
\* Spurious wake-ups of the condition variable that are explored.
MaxSpurious == 1

\* u64::MAX at the model's width
UMax == 2^IntBits - 1
\* i64::MAX at the model's width
IMax == 2^(IntBits - 1) - 1

-----------------------------------------------------------------------------
(* Text *)

Str_bytes_eq == <<"b", "y", "t", "e", "s", "=">>

Digits == {"0", "1", "2", "3", "4", "5", "6", "7", "8", "9"}

DigitVal(c) ==
    CASE c = "0" -> 0 [] c = "1" -> 1 [] c = "2" -> 2 [] c = "3" -> 3
      [] c = "4" -> 4 [] c = "5" -> 5 [] c = "6" -> 6 [] c = "7" -> 7
      [] c = "8" -> 8 [] c = "9" -> 9

Drop(s, n) == SubSeq(s, n + 1, Len(s))

StartsWith(s, p) == Len(s) >= Len(p) /\ SubSeq(s, 1, Len(p)) = p

\* how many leading characters of s are in the set cs
RECURSIVE LeadingCount(_, _)
LeadingCount(s, cs) ==
    IF s # <<>> /\ Head(s) \in cs THEN 1 + LeadingCount(Tail(s), cs) ELSE 0

-----------------------------------------------------------------------------
(* byte_range.rs: the Range header grammar, combinator by combinator.       *)
(* A parser maps its input to [ok, rest, val]: nom's Ok((rest, val)) or,    *)
(* with ok = FALSE, nom's Err(Err::Error(_)); the complete parsers used     *)
(* here return no other kind of error.                                      *)

ParseOk(rest, val) == [ok |-> TRUE, rest |-> rest, val |-> val]
ParseErr(input)    == [ok |-> FALSE, rest |-> input, val |-> <<>>]

StartingAt(start)           == [type |-> "StartingAt", a |-> start, b |-> 0]
Last(len)                   == [type |-> "Last", a |-> len, b |-> 0]
FromToIncluding(start, end) == [type |-> "FromToIncluding", a |-> start, b |-> end]

\* nom's char(c)
char(c, input) ==
    IF input # <<>> /\ Head(input) = c THEN ParseOk(Tail(input), c)
    ELSE ParseErr(input)

\* nom's tag(t)
tag(t, input) ==
    IF StartsWith(input, t) THEN ParseOk(Drop(input, Len(t)), t)
    ELSE ParseErr(input)

\* sp: take_while(' ' or '\t'); it never fails
sp(input) ==
    LET n == LeadingCount(input, {" ", "\t"})
    IN  ParseOk(Drop(input, n), SubSeq(input, 1, n))

\* nom's digit1: one or more ASCII digits
digit1(input) ==
    LET n == LeadingCount(input, Digits)
    IN  IF n = 0 THEN ParseErr(input)
        ELSE ParseOk(Drop(input, n), SubSeq(input, 1, n))

\* <u64 as FromStr>::from_str on a run of digits: the value, or -1 for the
\* ParseIntError of a value that does not fit (checked_mul / checked_add)
RECURSIVE parse_digits(_, _)
parse_digits(s, acc) ==
    IF s = <<>> THEN acc
    ELSE LET v == acc * 10 + DigitVal(Head(s))
         IN  IF v > UMax THEN -1 ELSE parse_digits(Tail(s), v)

\* map_res(digit1, |s| s.parse()): an Error, with nothing consumed, when
\* there is no digit or when the digits do not fit
number(input) ==
    LET d == digit1(input)
        v == parse_digits(d.val, 0)
    IN  IF ~d.ok \/ v < 0 THEN ParseErr(input) ELSE ParseOk(d.rest, v)

byte_range_spec(input) ==
    LET start == number(input)
        dash  == char("-", start.rest)
        end   == number(dash.rest)      \* under opt(..): an Error is None
    IN  IF ~start.ok \/ ~dash.ok THEN ParseErr(input)
        ELSE IF end.ok THEN ParseOk(end.rest, FromToIncluding(start.val, end.val))
        ELSE ParseOk(dash.rest, StartingAt(start.val))

suffix_byte_range_spec(input) ==
    LET dash == char("-", input)
        len  == number(dash.rest)
    IN  IF ~dash.ok \/ ~len.ok THEN ParseErr(input)
        ELSE ParseOk(len.rest, Last(len.val))

\* alt((byte_range_spec, suffix_byte_range_spec))
range_spec(input) ==
    LET first == byte_range_spec(input)
    IN  IF first.ok THEN first ELSE suffix_byte_range_spec(input)

\* tuple((sp, char(','), sp)): the separator of the list
list_separator(input) ==
    LET s1 == sp(input)
        c  == char(",", s1.rest)
        s2 == sp(c.rest)
    IN  IF ~c.ok THEN ParseErr(input) ELSE ParseOk(s2.rest, ",")

\* many0_count(preceded(char(','), sp)): the input left after it
RECURSIVE leading_commas(_)
leading_commas(input) ==
    LET c == char(",", input)
    IN  IF ~c.ok THEN input ELSE leading_commas(sp(c.rest).rest)

byte_range_set_start(input) ==
    LET t == tag(Str_bytes_eq, input)
    IN  IF ~t.ok THEN ParseErr(input)
        ELSE ParseOk(leading_commas(t.rest), <<>>)

\* the loop of separated_list1 after its first element: a separator or an
\* element that fails ends the list where the last element ended
RECURSIVE separated_list_rest(_, _)
separated_list_rest(input, res) ==
    LET sep  == list_separator(input)
        elem == range_spec(sep.rest)
    IN  IF ~sep.ok \/ ~elem.ok THEN ParseOk(input, res)
        ELSE separated_list_rest(elem.rest, Append(res, elem.val))

separated_list1(input) ==
    LET first == range_spec(input)
    IN  IF ~first.ok THEN ParseErr(input)
        ELSE separated_list_rest(first.rest, <<first.val>>)

parse_range(input) ==
    LET start == byte_range_set_start(input)
        list  == separated_list1(start.rest)
    IN  IF ~start.ok \/ ~list.ok THEN ParseErr(input) ELSE list

-----------------------------------------------------------------------------
(* Paths.  A path is a sequence of components; a component is <<stem>> or   *)
(* <<stem, extension>>, which is what Path::extension and set_extension     *)
(* read and write.                                                          *)

extension(path) ==
    IF path # <<>> /\ Len(path[Len(path)]) = 2 THEN <<path[Len(path)][2]>> ELSE <<>>

set_extension(path, ext) ==
    [path EXCEPT ![Len(path)] = <<path[Len(path)][1], ext>>]

-----------------------------------------------------------------------------
(* Responses *)

NoBody == [text |-> "", bytes |-> <<>>]

\* Response::new(Body::empty()): 200 OK, no header, empty body
NewResponse == [status |-> 200, headers |-> <<>>, body |-> NoBody]

\* HeaderMap::insert: the value replaces any earlier value of the name
insert(headers, name, value) ==
    [n \in (DOMAIN headers) \cup {name} |-> IF n = name THEN value ELSE headers[n]]

\* the value format!("bytes {}/{}", served_range, file_len) of Content-Range;
\* range is <<start, end>>, or <<>> for "*"
ContentRange(range, file_len) ==
    [unit |-> "bytes", range |-> range, length |-> file_len]

-----------------------------------------------------------------------------
(* Files and the calls made on them.  A file of length n holds the bytes    *)
(* 0, 1, .. n-1: each byte is named by its offset, so that a body shows     *)
(* which part of the file it is.                                            *)

FileBytes(n) == [i \in 1..n |-> i - 1]

Min(a, b) == IF a <= b THEN a ELSE b

\* what a reader positioned at pos yields until end of file, or until
\* limit bytes were read (AsyncReadExt::take)
ReadFrom(content, pos, limit) ==
    SubSeq(content, pos + 1, Min(Len(content), pos + limit))

\* u64 a - b: None (<<>>) where the subtraction overflows in a build with
\* overflow checks (a panic), the wrapped value otherwise
u64_sub(a, b, overflow_checks) ==
    IF a >= b THEN <<a - b>>
    ELSE IF overflow_checks THEN <<>>
    ELSE <<(a - b) % (UMax + 1)>>

\* `n as i64`
as_i64(n) == IF n > IMax THEN n - (UMax + 1) ELSE n

\* mime_guess::from_path(path).first(), for the extensions of the model
mime_guess(path) ==
    LET ext == extension(path)
    IN  IF ext = <<"mp4">> THEN <<"video/mp4">>
        ELSE IF ext = <<"vtt">> THEN <<"text/vtt">>
        ELSE <<>>

StatCall(path) == [op |-> "stat", path |-> path]
OpenCall(path) == [op |-> "open", path |-> path]

\* the environment of one call: whether metadata, open and seek succeed,
\* the file's length, and whether the build checks arithmetic overflow
IoOutcomes(lens) ==
    [stat_ok : BOOLEAN, file_len : lens, open_ok : BOOLEAN, seek_ok : BOOLEAN,
     overflow_checks : BOOLEAN]

\* a bounds test that lets the position one past the last byte through
MutRangeValidInclusive(range, file_len) ==
    CASE range.type = "StartingAt" -> range.a <= file_len
      [] range.type = "Last" -> range.a <= file_len
      [] range.type = "FromToIncluding" ->
            range.a < file_len /\ range.b <= file_len /\ range.a <= range.b

range_valid(range, file_len) ==
    CASE range.type = "StartingAt" -> range.a < file_len
      [] range.type = "Last" -> range.a <= file_len
      [] range.type = "FromToIncluding" ->
            range.a < file_len /\ range.b < file_len /\ range.a <= range.b

\* the resolved (start, end) of a valid range (main.rs 207-211): <<>> where
\* computing it panics
served_bounds(range, file_len, overflow_checks) ==
    LET last == u64_sub(file_len, 1, overflow_checks)
    IN  CASE range.type = "StartingAt" ->
                IF last = <<>> THEN <<>> ELSE <<range.a, last[1]>>
          [] range.type = "Last" ->
                LET first == u64_sub(file_len, range.a, overflow_checks)
                IN  IF first = <<>> \/ last = <<>> THEN <<>>
                    ELSE <<first[1], last[1]>>
          [] range.type = "FromToIncluding" -> <<range.a, range.b>>

\* a seek that ignores the start of the range
MutSeekFromStart(range, file_len, seek_ok) ==
    LET pos == CASE range.type = "Last" -> as_i64(range.a)
                 [] OTHER -> 0
    IN  IF seek_ok /\ pos >= 0 THEN <<pos>> ELSE <<>>

\* where file.seek(..) of main.rs 224-228 leaves the reader: <<pos>>, or <<>>
\* for an error
seek_position(range, file_len, seek_ok) ==
    LET pos == CASE range.type = "Last" -> file_len - as_i64(range.a)
                 [] OTHER -> as_i64(range.a)
    IN  IF seek_ok /\ pos >= 0 THEN <<pos>> ELSE <<>>

\* serve_file_range(path, range, resp): range is <<>> (None) or <<r>>.
\* The outcome is [result, response, calls, seek_to]: result is "Ok", "Err"
\* or "Panic"; response is the response as the call leaves it; calls are the
\* filesystem calls made, in order; seek_to is the position sought, or -1.
serve_file_range(path, range, resp, io) ==
    LET file_len == io.file_len
        r        == range[1]
        valid    == range_valid(r, file_len)
        bounds   == served_bounds(r, file_len, io.overflow_checks)
        ranged   == IF range = <<>> THEN resp
                    ELSE [resp EXCEPT
                            !.status  = IF valid THEN 206 ELSE 416,
                            !.headers = insert(@, "Content-Range",
                                ContentRange(IF valid THEN bounds ELSE <<>>, file_len))]
        sought   == IF range = <<>> THEN <<0>>
                    ELSE seek_position(r, file_len, io.seek_ok)
        limit    == IF range # <<>> /\ r.type = "FromToIncluding"
                    THEN r.b - r.a + 1 ELSE file_len + 1
        mime     == mime_guess(path)
        typed    == IF mime = <<>> THEN ranged
                    ELSE [ranged EXCEPT !.headers = insert(@, "Content-Type", mime[1])]
        Out(result, r_out, calls, pos) ==
            [result |-> result, response |-> r_out, calls |-> calls, seek_to |-> pos]
    IN  IF ~io.stat_ok THEN Out("Err", resp, <<StatCall(path)>>, -1)
        ELSE IF range # <<>> /\ valid /\ bounds = <<>>
            THEN Out("Panic", resp, <<StatCall(path)>>, -1)
        ELSE IF range # <<>> /\ ~valid
            THEN Out("Ok", ranged, <<StatCall(path)>>, -1)
        ELSE IF ~io.open_ok
            THEN Out("Err", ranged, <<StatCall(path), OpenCall(path)>>, -1)
        ELSE IF sought = <<>>
            THEN Out("Err", ranged, <<StatCall(path), OpenCall(path)>>, -1)
        ELSE Out("Ok",
                 [typed EXCEPT !.body =
                    [text |-> "", bytes |-> ReadFrom(FileBytes(file_len), sought[1], limit)]],
                 <<StatCall(path), OpenCall(path)>>,
                 IF range = <<>> THEN -1 ELSE sought[1])

-----------------------------------------------------------------------------
(* scanner.rs: the catalogue builder and the served-set index.              *)
(*                                                                          *)
(* The directory tree is fs = [dirs, tomls]: dirs maps each directory's     *)
(* path to its entries in the order read_dir yields them, an entry being    *)
(* [name, type] with type "dir" or "file"; tomls maps each metadata file's  *)
(* path to what it holds, [kind, text_track_language].                      *)

EXTENSION_MP4 == "mp4"
EXTENSION_TOML == "toml"
EXTENSION_SUBTITLES == "vtt"
DEFAULT_LANGUAGE == "en"

\* the folder given on the command line
Folder == << <<"movies">> >>

Parent(path) == SubSeq(path, 1, Len(path) - 1)

\* Path::is_file
is_file(tree, path) ==
    /\ Parent(path) \in DOMAIN tree.dirs
    /\ \E i \in DOMAIN tree.dirs[Parent(path)] :
          tree.dirs[Parent(path)][i] = [name |-> path[Len(path)], type |-> "file"]

\* RelativizedPath::new
RelativizedPath(root_path, path) ==
    [path |-> path, relative_path |-> Drop(path, Len(root_path))]

\* the text tracks of a video (scanner.rs 112-119): language -> path
text_tracks_of(tree, root_path, path, config) ==
    LET subtitle_path == set_extension(path, EXTENSION_SUBTITLES)
        language == IF config.text_track_language = <<>> THEN DEFAULT_LANGUAGE
                    ELSE config.text_track_language[1]
    IN  IF is_file(tree, subtitle_path)
        THEN [l \in {language} |-> RelativizedPath(root_path, subtitle_path)]
        ELSE [l \in {} |-> RelativizedPath(root_path, subtitle_path)]

\* Result<Vec<CatalogueItem>, io::Error>
ScanOk(items) == [ok |-> TRUE, items |-> items]
ScanErr == [ok |-> FALSE, items |-> <<>>]

\* what one regular file contributes to its directory's items
\* (scanner.rs 92-129): no item, one Video, or the io::Error that the `?`
\* on fs::read_to_string(toml_path) returns from scan_directory
scan_file(tree, root_path, path) ==
    LET toml_path == set_extension(path, EXTENSION_TOML)
        config    == tree.tomls[toml_path]
    IN  IF extension(path) # <<EXTENSION_MP4>> THEN ScanOk(<<>>)
        ELSE IF ~is_file(tree, toml_path) THEN ScanOk(<<>>)
        ELSE IF config.kind = "unreadable" THEN ScanErr
        ELSE IF config.kind = "not_toml" THEN ScanOk(<<>>)
        ELSE IF config.kind = "bad_duration" THEN ScanOk(<<>>)
        ELSE ScanOk(<< [type        |-> "file",
                        path        |-> RelativizedPath(root_path, path),
                        text_tracks |-> text_tracks_of(tree, root_path, path,
                                                       config)] >>)

\* the items of the entries after one that pushed `items`
scan_append(items, rest) ==
    IF rest.ok THEN ScanOk(items \o rest.items) ELSE ScanErr

RECURSIVE scan_entries(_, _, _, _)
scan_directory(tree, root_path, path) ==
    scan_entries(tree, root_path, path, tree.dirs[path])

\* CatalogueItem::Directory of scanner.rs 85-89: the `?` on the nested scan
\* passes its error on
scan_subdirectory(name, scanned) ==
    IF scanned.ok
    THEN ScanOk(<< [type |-> "directory", name |-> name,
                    items |-> scanned.items] >>)
    ELSE ScanErr

\* the items pushed for one entry followed by those of the entries after
\* it; an error at the entry ends the loop
scan_push(pushed, tree, root_path, path, entries) ==
    IF pushed.ok
    THEN scan_append(pushed.items,
                     scan_entries(tree, root_path, path, entries))
    ELSE ScanErr

\* the loop of scan_directory over the entries that are left
scan_entries(tree, root_path, path, entries) ==
    IF entries = <<>> THEN ScanOk(<<>>)
    ELSE LET entry == Head(entries)
             child == Append(path, entry.name)
         IN  scan_push(IF entry.type = "dir"
                       THEN scan_subdirectory(
                                entry.name,
                                scan_directory(tree, root_path, child))
                       ELSE IF entry.type = "file"
                       THEN scan_file(tree, root_path, child)
                       ELSE ScanOk(<<>>),
                       tree, root_path, path, Tail(entries))

RECURSIVE extract_served_files(_)
extract_served_files(items) ==
    UNION { IF items[i].type = "file" THEN {items[i].path}
            ELSE extract_served_files(items[i].items)
          : i \in DOMAIN items }

\* <RelativizedPath as Serialize>::serialize: the components of the
\* relative path joined by "/"
RECURSIVE join(_, _)
join(components, separator) ==
    IF Len(components) <= 1 THEN components
    ELSE <<Head(components), separator>> \o join(Tail(components), separator)

UniversalPath(rp) == join(rp.relative_path, <<"/">>)

\* the path strings the manifest (serde_json::to_string(&catalogue)) lists:
\* every Video's "path" and every value of its "text-tracks"
RECURSIVE manifest_paths(_)
manifest_paths(items) ==
    UNION { IF items[i].type = "file"
            THEN {UniversalPath(items[i].path)}
                 \cup {UniversalPath(items[i].text_tracks[l]) :
                          l \in DOMAIN items[i].text_tracks}
            ELSE manifest_paths(items[i].items)
          : i \in DOMAIN items }

\* every Video item of a catalogue, at any depth
RECURSIVE videos(_)
videos(items) ==
    UNION { IF items[i].type = "file" THEN {items[i]} ELSE videos(items[i].items)
          : i \in DOMAIN items }

(* The directory trees of the model: the folder holds any of a.mp4, a.toml, *)
(* a.vtt and b.mp4, and may hold a directory d with any of a.mp4 and a.toml. *)

RootFiles == << <<"a", "mp4">>, <<"a", "toml">>, <<"a", "vtt">>, <<"b", "mp4">> >>
SubFiles  == << <<"a", "mp4">>, <<"a", "toml">> >>
SubDir    == <<"d">>

TomlKinds == {"valid", "not_toml", "bad_duration", "unreadable"}
TomlConfigs == [kind : TomlKinds, text_track_language : {<<>>, <<"fr">>}]
PlainConfig == [kind |-> "valid", text_track_language |-> <<>>]
SubConfigs == {PlainConfig, [PlainConfig EXCEPT !.kind = "unreadable"]}

Range(seq) == {seq[i] : i \in DOMAIN seq}

FileEntries(names, present) ==
    LET Keep(n) == n \in present
        kept == SelectSeq(names, Keep)
    IN  [i \in DOMAIN kept |-> [name |-> kept[i], type |-> "file"]]

RootToml == Append(Folder, <<"a", "toml">>)
SubToml  == Folder \o <<SubDir, <<"a", "toml">>>>

\* has_dir is <<>> (no directory d) or <<S>>, S the files of d
MakeTree(root_present, has_dir, root_config, sub_config) ==
    [dirs  |-> IF has_dir = <<>>
               THEN [p \in {Folder} |-> FileEntries(RootFiles, root_present)]
               ELSE [p \in {Folder, Append(Folder, SubDir)} |->
                       IF p = Folder
                       THEN Append(FileEntries(RootFiles, root_present),
                                   [name |-> SubDir, type |-> "dir"])
                       ELSE FileEntries(SubFiles, has_dir[1])],
     tomls |-> [p \in (IF root_config = <<>> THEN {} ELSE {RootToml})
                          \cup (IF sub_config = <<>> THEN {} ELSE {SubToml})
                  |-> IF p = RootToml THEN root_config[1] ELSE sub_config[1]]]

\* the metadata a tree's toml file may hold, <<>> when the file is absent
ConfigsFor(present, name, configs) ==
    IF name \in present THEN {<<c>> : c \in configs} ELSE {<<>>}

Trees ==
    UNION { UNION { { MakeTree(rp, hd, rc, sc) :
                        rc \in ConfigsFor(rp, RootFiles[2], TomlConfigs),
                        sc \in ConfigsFor(IF hd = <<>> THEN {} ELSE hd[1],
                                          SubFiles[2], SubConfigs) }
                  : hd \in {<<>>, <<{}>>, <<{SubFiles[1]}>>, <<Range(SubFiles)>>} }
          : rp \in SUBSET Range(RootFiles) }

-----------------------------------------------------------------------------
(* main.rs: the request router and serve_file.                              *)
(*                                                                          *)
(* A URI path is a sequence of tokens: a name such as <<"a", "mp4">> (the   *)
(* text a.mp4), the separator <<"/">>, or a percent escape: <<"%2F">> (an   *)
(* encoded "/"), <<"%FF">> (an encoded byte that is no UTF-8), <<"%zz">>    *)
(* (a "%" followed by no hex digits) and <<"%61", e>> (the name a.e with    *)
(* its first letter encoded).                                              *)

SLASH == <<"/">>
PATH_MANIFEST == <<SLASH>>
PATH_FILE_PREFIX == <<SLASH, <<"file">>, SLASH>>
ALLOWED_ORIGIN == "*"
MAX_AGE == 48 * 60 * 60

\* a header byte outside visible ASCII, which HeaderValue::to_str rejects
OpaqueByte == "\\xFF"

\* HeaderValue::to_str: <<text>>, or <<>> for its error
to_str(value) ==
    IF \E i \in DOMAIN value : value[i] = OpaqueByte THEN <<>> ELSE <<value>>

\* percent_decode_str: an escape becomes the byte it names; a "%" that no
\* two hex digits follow is left as it is
percent_decode(token) ==
    IF token = <<"%2F">> THEN SLASH
    ELSE IF token[1] = "%61" THEN [token EXCEPT ![1] = "a"]
    ELSE token

\* percent_decode_str(path).decode_utf8(): <<text>>, or <<>> for its error
percent_decode_utf8(path) ==
    IF \E i \in DOMAIN path : path[i] = <<"%FF">> THEN <<>>
    ELSE << [i \in DOMAIN path |-> percent_decode(path[i])] >>

\* Path::components of a text: the names between separators, after the
\* root component of a text that starts with a separator
components(text) ==
    LET IsName(t) == t # SLASH
    IN  (IF text # <<>> /\ Head(text) = SLASH THEN <<SLASH>> ELSE <<>>)
        \o SelectSeq(text, IsName)

\* served_files.iter().find(..) of main.rs 158-161, the comparison being
\* that of PathBuf with OsStr: component by component
MutFindServedByName(served, requested_path) ==
    {rp \in served :
        /\ requested_path # <<>>
        /\ rp.relative_path[Len(rp.relative_path)] = requested_path[Len(requested_path)]}

find_served(served, requested_path) ==
    {rp \in served : rp.relative_path = components(requested_path)}

add_common_cors_headers(headers) ==
    insert(insert(insert(headers,
        "Access-Control-Allow-Origin", ALLOWED_ORIGIN),
        "Access-Control-Expose-Headers", "Content-Type, Accept-Encoding, Range"),
        "Access-Control-Max-Age", MAX_AGE)

serve_manifest(resp) ==
    [resp EXCEPT !.headers = insert(@, "Content-Type", "application/json"),
                 !.body = [text |-> "manifest", bytes |-> <<>>]]

\* a choice that serves the first range of a list of several
MutFirstOfSeveral(ranges) ==
    IF Len(ranges) >= 1 THEN <<ranges[1]>> ELSE <<>>

\* the range serve_file hands to serve_file_range, from the list parsed
\* (main.rs 172-178): <<>> is None
single_range(ranges) ==
    IF Len(ranges) = 1 THEN <<ranges[1]>> ELSE <<>>

\* a handler's outcome: the response as it leaves it, the filesystem calls
\* it made, and whether the task panicked (no response is sent then)
Handled(resp, calls, panicked) ==
    [response |-> resp, calls |-> calls, panicked |-> panicked]

BadRequest(resp, text) ==
    Handled([resp EXCEPT !.status = 400, !.body = [text |-> text, bytes |-> <<>>]],
            <<>>, FALSE)

\* main.rs 190-193: what serve_file makes of serve_file_range's outcome
MutFreshErrorResponse(out) ==
    IF out.result = "Panic" THEN Handled(out.response, out.calls, TRUE)
    ELSE IF out.result = "Err"
    THEN Handled([NewResponse EXCEPT
                    !.status = 500,
                    !.body = [text |-> "Couldn't read the file", bytes |-> <<>>]],
                 out.calls, FALSE)
    ELSE Handled(out.response, out.calls, FALSE)

after_serve_file_range(out) ==
    IF out.result = "Panic" THEN Handled(out.response, out.calls, TRUE)
    ELSE IF out.result = "Err"
    THEN Handled([out.response EXCEPT
                    !.status = 500,
                    !.body = [text |-> "Couldn't read the file", bytes |-> <<>>]],
                 out.calls, FALSE)
    ELSE Handled(out.response, out.calls, FALSE)

\* main.rs 170-193, the Range header present: parsed is parse_range's result
serve_parsed(path, parsed, resp, io) ==
    IF ~parsed.ok THEN Handled([resp EXCEPT !.status = 400], <<>>, FALSE)
    ELSE after_serve_file_range(
            serve_file_range(path, single_range(parsed.val), resp, io))

\* main.rs 163-193: found holds the served-set entries the lookup matched
serve_found(found, range_data, resp, io) ==
    IF found = {} THEN Handled([resp EXCEPT !.status = 404], <<>>, FALSE)
    ELSE serve_parsed((CHOOSE rp \in found : TRUE).path,
                      IF range_data = <<>> THEN ParseOk(<<>>, <<>>)
                      ELSE parse_range(range_data[1]),
                      resp, io)

\* main.rs 137-161: range_data and requested are <<>> where the header or
\* the path could not be decoded
serve_decoded(served, requested, has_range, range_data, resp, io) ==
    IF has_range /\ range_data = <<>> THEN BadRequest(resp, "Invalid range")
    ELSE IF requested = <<>> THEN BadRequest(resp, "Path is not a valid file path")
    ELSE serve_found(find_served(served, requested[1]), range_data, resp, io)

\* serve_file(served_files, path, headers, response): range_header is
\* headers.get("Range"), <<>> or <<value>>
serve_file(served, path, range_header, resp, io) ==
    serve_decoded(served, percent_decode_utf8(path), range_header # <<>>,
                  IF range_header = <<>> THEN <<>> ELSE to_str(range_header[1]),
                  resp, io)

\* the service function of main.rs 71-102
route(req, served, io) ==
    LET new == NewResponse
        file_headers == add_common_cors_headers(insert(new.headers, "Accept-Ranges", "bytes"))
        for_file == [new EXCEPT !.headers = file_headers]
    IN  IF req.method = "GET" /\ req.path = PATH_MANIFEST
        THEN Handled(serve_manifest(new), <<>>, FALSE)
        ELSE IF req.method \in {"GET", "OPTIONS"} /\ StartsWith(req.path, PATH_FILE_PREFIX)
        THEN IF req.method = "OPTIONS"
             THEN Handled([for_file EXCEPT !.headers =
                              insert(@, "Access-Control-Allow-Methods", "GET")],
                          <<>>, FALSE)
             ELSE serve_file(served, Drop(req.path, Len(PATH_FILE_PREFIX)),
                             req.range, for_file, io)
        ELSE Handled([new EXCEPT !.status = 404], <<>>, FALSE)

-----------------------------------------------------------------------------
(* The inputs the model explores *)

\* every text of at most n characters of the alphabet
Texts(alphabet, n) == UNION { [1..k -> alphabet] : k \in 0..n }

ParserAlphabet == {"0", "9", "-", ",", " ", "a"}

\* the header values parse_range is run on: "bytes=" and a tail, and tails
\* that lack the prefix
HeaderValues ==
    { Str_bytes_eq \o t : t \in Texts(ParserAlphabet, MaxTail) }
    \cup Texts({"0", "-"}, 2)

\* the ranges serve_file_range is run on
RangeNumbers == (0..(MaxLen + 1)) \cup {IMax, IMax + 1, UMax}

ByteRanges ==
    { StartingAt(s) : s \in RangeNumbers }
    \cup { Last(n) : n \in RangeNumbers }
    \cup { FromToIncluding(s, e) : s \in RangeNumbers, e \in RangeNumbers }

RangePaths == { Append(Folder, <<"a", "mp4">>), Append(Folder, <<"notes">>) }

\* the requests the server is sent
Name(stem, ext) == <<stem, ext>>

FileTails ==
    { <<Name("a", "mp4")>>, <<Name("a", "vtt")>>, <<Name("b", "mp4")>>,
      <<Name("z", "mp4")>>, <<Name("%61", "mp4")>>,
      <<SubDir, SLASH, Name("a", "mp4")>>, <<SubDir, <<"%2F">>, Name("a", "mp4")>>,
      <<<<"..">>, SLASH, Name("b", "mp4")>>,
      <<<<"%zz">>>>, <<<<"%FF">>>> }

RangeHeaders ==
    { <<>>,
      <<Str_bytes_eq \o <<"0", "-", "0">>>>,
      <<Str_bytes_eq \o <<"0", "-", "0", ",", "1", "-", "1">>>>,
      <<Str_bytes_eq \o <<"a", "b", "c">>>>,
      <<Str_bytes_eq \o <<"-", "0">>>>,
      <<Str_bytes_eq \o <<"-", "1">>>>,
      <<Str_bytes_eq \o <<"9", "-">>>>,
      <<Str_bytes_eq \o <<"0", "-", "9", "9">>>>,
      <<Str_bytes_eq \o <<"0", "-", OpaqueByte>>>> }

\* what the filesystem calls of one request can meet
ServerIo ==
    { io \in IoOutcomes({0, MaxLen}) :
        /\ ~io.stat_ok => ~io.open_ok /\ io.file_len = 0
        /\ ~io.open_ok => ~io.seek_ok
        /\ ~(io.seek_ok /\ io.file_len = 0) => io.overflow_checks }

NoIo == [stat_ok |-> FALSE, file_len |-> 0, open_ok |-> FALSE, seek_ok |-> FALSE,
         overflow_checks |-> TRUE]

Requests ==
    { [method |-> "GET", path |-> PATH_FILE_PREFIX \o t, range |-> h] :
          t \in FileTails, h \in RangeHeaders }
    \cup { [method |-> m, path |-> p, range |-> <<>>] :
              m \in {"GET", "OPTIONS", "HEAD"},
              p \in {PATH_MANIFEST, <<SLASH, <<"other">>>>,
                     PATH_FILE_PREFIX \o <<Name("a", "mp4")>>,
                     PATH_FILE_PREFIX \o <<Name("z", "mp4")>>} }

\* the I/O a request can meet: only a GET of a file touches the filesystem
IoFor(req) ==
    IF req.method = "GET" /\ StartsWith(req.path, PATH_FILE_PREFIX)
    THEN ServerIo ELSE {NoIo}

-----------------------------------------------------------------------------
(* The values of the variables of a part of the model that is not running *)

NoRequest == [method |-> "", path |-> <<>>, range |-> <<>>]
NotParsed == [called |-> FALSE, ok |-> FALSE, rest |-> <<>>, val |-> <<>>]
NoRangeInput == [path |-> <<>>, range |-> <<>>, io |-> NoIo]
NoRangeOutput == [called |-> FALSE, result |-> "", response |-> NewResponse,
                  calls |-> <<>>, seek_to |-> -1]
NoTree == MakeTree({}, <<>>, <<>>, <<>>)

ParserIdle == header_input = <<>> /\ parse_result = NotParsed
RangeIdle  == range_input = NoRangeInput /\ range_output = NoRangeOutput
ServerIdle ==
    /\ fs = NoTree
    /\ pc = "idle"
    /\ cb_pc = "idle"
    /\ registration_mutex = "free"
    /\ in_progress_mutex = "free"
    /\ registration_in_progress = FALSE
    /\ spurious = 0
    /\ callback_ran = FALSE
    /\ catalogue = <<>>
    /\ served_files = {}
    /\ request = NoRequest
    /\ io_outcome = NoIo
    /\ response = NewResponse
    /\ accessed = <<>>

-----------------------------------------------------------------------------
(* The parser run on one header value *)

InitParse ==
    /\ header_input \in HeaderValues
    /\ parse_result = NotParsed
    /\ RangeIdle
    /\ ServerIdle

ParseHeader ==
    /\ ~parse_result.called
    /\ parse_result' = [called |-> TRUE] @@ parse_range(header_input)
    /\ UNCHANGED <<header_input, rangeVars, serverVars>>

NextParse == ParseHeader

SpecParse == InitParse /\ [][NextParse]_vars

-----------------------------------------------------------------------------
(* serve_file_range run on one file and one range *)

InitRange ==
    /\ range_input \in [path : RangePaths,
                        range : {<<>>} \cup {<<r>> : r \in ByteRanges},
                        io : IoOutcomes(0..MaxLen)]
    /\ range_output = NoRangeOutput
    /\ ParserIdle
    /\ ServerIdle

ServeRange ==
    /\ ~range_output.called
    /\ range_output' = [called |-> TRUE]
            @@ serve_file_range(range_input.path, range_input.range, NewResponse,
                                range_input.io)
    /\ UNCHANGED <<range_input, parserVars, serverVars>>

NextRange == ServeRange

SpecRange == InitRange /\ [][NextRange]_vars

-----------------------------------------------------------------------------
(* The server process: main() of main.rs, with register_service and the     *)
(* callback thread of network.rs.                                           *)
(*                                                                          *)
(* pc runs through register_service ("hostname", "lock_registration",       *)
(* "lock_state", "set_flag", "dns_register", "wait_check", "waiting",       *)
(* "woken", "unlock"), then "scan", "extract", "bind" and "serving";        *)
(* "aborted" is main returning the error.                                   *)

InitServer ==
    /\ fs \in Trees
    /\ pc = "hostname"
    /\ cb_pc = "idle"
    /\ registration_mutex = "free"
    /\ in_progress_mutex = "free"
    /\ registration_in_progress = FALSE
    /\ spurious = 0
    /\ callback_ran = FALSE
    /\ catalogue = <<>>
    /\ served_files = {}
    /\ request = NoRequest
    /\ io_outcome = NoIo
    /\ response = NewResponse
    /\ accessed = <<>>
    /\ ParserIdle
    /\ RangeIdle

registerVars == <<cb_pc, registration_mutex, in_progress_mutex,
                  registration_in_progress, spurious, callback_ran>>
dataVars == <<fs, catalogue, served_files>>
requestVars == <<request, io_outcome, response, accessed>>
otherVars == <<parserVars, rangeVars>>

\* network.rs 34-55: GetComputerNameExW(..).ok()? and the request record
GetComputerName ==
    /\ pc = "hostname"
    /\ \E ok \in BOOLEAN : pc' = IF ok THEN "lock_registration" ELSE "aborted"
    /\ UNCHANGED <<registerVars, dataVars, requestVars, otherVars>>

\* network.rs 58
LockRegistration ==
    /\ pc = "lock_registration"
    /\ registration_mutex = "free"
    /\ registration_mutex' = "main"
    /\ pc' = "lock_state"
    /\ UNCHANGED <<cb_pc, in_progress_mutex, registration_in_progress, spurious,
                   callback_ran, dataVars, requestVars, otherVars>>

\* network.rs 59
LockState ==
    /\ pc = "lock_state"
    /\ in_progress_mutex = "free"
    /\ in_progress_mutex' = "main"
    /\ pc' = "set_flag"
    /\ UNCHANGED <<cb_pc, registration_mutex, registration_in_progress, spurious,
                   callback_ran, dataVars, requestVars, otherVars>>

\* network.rs 60
SetInProgress ==
    /\ pc = "set_flag"
    /\ registration_in_progress' = TRUE
    /\ pc' = "dns_register"
    /\ UNCHANGED <<cb_pc, registration_mutex, in_progress_mutex, spurious,
                   callback_ran, dataVars, requestVars, otherVars>>

\* network.rs 62-65: DNS_REQUEST_PENDING schedules the completion callback;
\* any other result returns the error, which drops both guards
DnsServiceRegister ==
    /\ pc = "dns_register"
    /\ \E pending \in BOOLEAN :
          IF pending
          THEN /\ cb_pc' = "scheduled"
               /\ pc' = "wait_check"
               /\ UNCHANGED <<registration_mutex, in_progress_mutex>>
          ELSE /\ pc' = "aborted"
               /\ registration_mutex' = "free"
               /\ in_progress_mutex' = "free"
               /\ UNCHANGED cb_pc
    /\ UNCHANGED <<registration_in_progress, spurious, callback_ran,
                   dataVars, requestVars, otherVars>>

\* network.rs 67: wait_while tests the flag with the mutex held; while it is
\* set, Condvar::wait releases the mutex and blocks, in one step
WaitWhile ==
    /\ pc = "wait_check"
    /\ in_progress_mutex = "main"
    /\ IF registration_in_progress
       THEN pc' = "waiting" /\ in_progress_mutex' = "free"
       ELSE pc' = "unlock" /\ UNCHANGED in_progress_mutex
    /\ UNCHANGED <<cb_pc, registration_mutex, registration_in_progress, spurious,
                   callback_ran, dataVars, requestVars, otherVars>>

\* a wake-up of Condvar::wait that no notification caused
SpuriousWake ==
    /\ pc = "waiting"
    /\ spurious < MaxSpurious
    /\ spurious' = spurious + 1
    /\ pc' = "woken"
    /\ UNCHANGED <<cb_pc, registration_mutex, in_progress_mutex,
                   registration_in_progress, callback_ran,
                   dataVars, requestVars, otherVars>>

\* Condvar::wait takes the mutex again before it returns to wait_while,
\* which tests the flag again
MutReacquireNoRecheck ==
    /\ pc = "woken"
    /\ in_progress_mutex = "free"
    /\ in_progress_mutex' = "main"
    /\ pc' = "unlock"
    /\ UNCHANGED <<cb_pc, registration_mutex, registration_in_progress, spurious,
                   callback_ran, dataVars, requestVars, otherVars>>

Reacquire ==
    /\ pc = "woken"
    /\ in_progress_mutex = "free"
    /\ in_progress_mutex' = "main"
    /\ pc' = "wait_check"
    /\ UNCHANGED <<cb_pc, registration_mutex, registration_in_progress, spurious,
                   callback_ran, dataVars, requestVars, otherVars>>

\* network.rs 68-70: the guards are dropped and register_service returns Ok
ReturnOk ==
    /\ pc = "unlock"
    /\ registration_mutex' = "free"
    /\ in_progress_mutex' = "free"
    /\ pc' = "scan"
    /\ UNCHANGED <<cb_pc, registration_in_progress, spurious, callback_ran,
                   dataVars, requestVars, otherVars>>

\* network.rs 76: the callback locks the mutex, clears the flag and unlocks
CallbackClear ==
    /\ cb_pc = "scheduled"
    /\ in_progress_mutex = "free"
    /\ registration_in_progress' = FALSE
    /\ callback_ran' = TRUE
    /\ cb_pc' = "notify"
    /\ UNCHANGED <<pc, registration_mutex, in_progress_mutex, spurious,
                   dataVars, requestVars, otherVars>>

\* network.rs 77: notify_all wakes the thread blocked in wait, if any
CallbackNotify ==
    /\ cb_pc = "notify"
    /\ cb_pc' = "done"
    /\ pc' = IF pc = "waiting" THEN "woken" ELSE pc
    /\ UNCHANGED <<registration_mutex, in_progress_mutex, registration_in_progress,
                   spurious, callback_ran, dataVars, requestVars, otherVars>>

\* main.rs 62-63
ScanDirectory ==
    /\ pc = "scan"
    /\ \E scanned \in {scan_directory(fs, Folder, Folder)} :
          IF scanned.ok
          THEN catalogue' = scanned.items /\ pc' = "extract"
          ELSE catalogue' = catalogue /\ pc' = "scan_failed"
    /\ UNCHANGED <<fs, served_files, registerVars, requestVars, otherVars>>

\* main.rs 64-65
ExtractServedFiles ==
    /\ pc = "extract"
    /\ served_files' = extract_served_files(catalogue)
    /\ pc' = "bind"
    /\ UNCHANGED <<fs, catalogue, registerVars, requestVars, otherVars>>

\* main.rs 67-116: the two listeners are bound and spawned
Bind ==
    /\ pc = "bind"
    /\ pc' = "serving"
    /\ UNCHANGED <<dataVars, registerVars, requestVars, otherVars>>

\* the response a panicked task leaves: the connection is closed, nothing
\* is sent
NoResponse == [status |-> 0, headers |-> <<>>, body |-> NoBody]

\* what the connection carries back for a handler's outcome
Respond(out) ==
    /\ response' = IF out.panicked THEN NoResponse ELSE out.response
    /\ accessed' = out.calls

\* main.rs 71-102: one request, from its arrival to its response.  The
\* handler reads served_files and writes nothing that another request reads,
\* so the model follows one request at a time.
HandleRequest ==
    /\ pc = "serving"
    /\ request = NoRequest
    /\ \E req \in Requests : \E io \in IoFor(req) :
          /\ request' = req
          /\ io_outcome' = io
          /\ Respond(route(req, served_files, io))
    /\ UNCHANGED <<pc, dataVars, registerVars, otherVars>>

\* main.rs 101: the response is handed to hyper and the task's state is
\* dropped
SendResponse ==
    /\ pc = "serving"
    /\ request # NoRequest
    /\ request' = NoRequest
    /\ io_outcome' = NoIo
    /\ response' = NewResponse
    /\ accessed' = <<>>
    /\ UNCHANGED <<pc, dataVars, registerVars, otherVars>>

NextStartup ==
    \/ GetComputerName
    \/ LockRegistration
    \/ LockState
    \/ SetInProgress
    \/ DnsServiceRegister
    \/ WaitWhile
    \/ SpuriousWake
    \/ Reacquire
    \/ ReturnOk
    \/ CallbackClear
    \/ CallbackNotify
    \/ ScanDirectory
    \/ ExtractServedFiles
    \/ Bind

Next == NextStartup \/ HandleRequest \/ SendResponse

Spec == InitServer /\ [][Next]_vars

\* start-up alone, with the scheduling the operating system gives the two
\* threads: each keeps running while it has a step to take
SpecStartup == InitServer /\ [][NextStartup]_vars /\ WF_vars(NextStartup)

-----------------------------------------------------------------------------
(* Properties of serve_file_range, stated on the call SpecRange makes *)

RangeCalled == range_output.called /\ range_input.io.stat_ok
RangeLen    == range_input.io.file_len
RangeAsked  == range_input.range[1]
RangeHasOne == range_input.range # <<>>

\* the bytes of a file of RangeLen bytes from offset first to offset last
Window(first, last) == [i \in 1..(last - first + 1) |-> first + i - 1]

\* the response and position a call of serve_file_range ends with
Served(out) == <<out.result, out.response, out.seek_to>>

\* a range the claims C2 call valid against the file length, and the
\* inclusive bounds they name for it
C2_InBounds ==
    /\ RangeHasOne
    /\ \/ RangeAsked.type = "StartingAt" /\ RangeAsked.a < RangeLen
       \/ /\ RangeAsked.type = "FromToIncluding"
          /\ RangeAsked.a <= RangeAsked.b
          /\ RangeAsked.b < RangeLen

C2_First == RangeAsked.a
C2_Last  == IF RangeAsked.type = "StartingAt" THEN RangeLen - 1 ELSE RangeAsked.b

\* C2: for every file length L and every single range valid against it
\* (StartingAt(s), s < L; FromToIncluding(s, e), s <= e < L),
\* serve_file_range sets status 206 and Content-Range: bytes start-end/L,
\* with [start, end] = [s, L-1] or [s, e]; it fails only when open or seek
\* fails, and otherwise the body is exactly the bytes start..end of the file.
C2_PartialContent ==
    (RangeCalled /\ C2_InBounds) =>
        /\ range_output.response.status = 206
        /\ "Content-Range" \in DOMAIN range_output.response.headers
        /\ range_output.response.headers["Content-Range"]
              = ContentRange(<<C2_First, C2_Last>>, RangeLen)
        /\ (range_output.result = "Ok")
              <=> (range_input.io.open_ok /\ range_input.io.seek_ok)
        /\ range_output.result = "Ok" =>
              /\ range_output.seek_to = C2_First
              /\ range_output.response.body.bytes = Window(C2_First, C2_Last)
              /\ Len(range_output.response.body.bytes) = C2_Last - C2_First + 1

\* C2 happens: the middle byte of a three-byte file, and the tail of a file
C2_Witness ==
    /\ RangeCalled
    /\ range_output.result = "Ok"
    /\ range_output.response.status = 206
    /\ \/ RangeAsked = FromToIncluding(1, 1) /\ RangeLen = 3
          /\ range_output.response.body.bytes = <<1>>
       \/ RangeAsked = StartingAt(1) /\ RangeLen = 3
          /\ range_output.response.body.bytes = <<1, 2>>

\* a range the claim C3 calls out of bounds for the file length
C3_OutOfBounds ==
    /\ RangeHasOne
    /\ \/ RangeAsked.type = "StartingAt" /\ RangeAsked.a >= RangeLen
       \/ RangeAsked.type = "Last" /\ RangeAsked.a > RangeLen
       \/ /\ RangeAsked.type = "FromToIncluding"
          /\ \/ RangeAsked.a >= RangeLen
             \/ RangeAsked.b >= RangeLen
             \/ RangeAsked.a > RangeAsked.b

\* C3: for every file length L and every single range out of bounds for it,
\* serve_file_range returns Ok with status 416, Content-Range: bytes */L and
\* an empty body, and has not opened the file.
C3_RangeNotSatisfiable ==
    (RangeCalled /\ C3_OutOfBounds) =>
        /\ range_output.result = "Ok"
        /\ range_output.response.status = 416
        /\ "Content-Range" \in DOMAIN range_output.response.headers
        /\ range_output.response.headers["Content-Range"] = ContentRange(<<>>, RangeLen)
        /\ range_output.response.body = NoBody
        /\ \A i \in DOMAIN range_output.calls : range_output.calls[i].op # "open"

\* C3 happens: a range that starts at the length of the file, with a file
\* that could have been opened
C3_Witness ==
    /\ RangeCalled
    /\ RangeHasOne
    /\ RangeAsked = StartingAt(RangeLen)
    /\ RangeLen > 0
    /\ range_input.io.open_ok
    /\ range_output.response.status = 416

\* C4 (the claim as stated): for every L >= 0 and every n with 0 <= n <= L
\* the outcome of Last(n) is that of StartingAt(L - n): same status, same
\* Content-Range, same seek offset, same body; n = 0 and L = 0 included.
C4_LastIsStartingAt ==
    (RangeCalled /\ RangeHasOne /\ RangeAsked.type = "Last" /\ RangeAsked.a <= RangeLen)
        => Served(range_output)
              = Served(serve_file_range(range_input.path,
                                        <<StartingAt(RangeLen - RangeAsked.a)>>,
                                        NewResponse, range_input.io))

-----------------------------------------------------------------------------
(* Properties of parse_range, stated on the call SpecParse makes *)

\* C6 (the claim as stated): parse_range succeeds only with a non-empty list
\* of ranges that accounts for the whole header value; it never succeeds on
\* a prefix and leaves the rest unparsed.
C6_WholeHeaderOrError ==
    (parse_result.called /\ parse_result.ok) =>
        /\ parse_result.val # <<>>
        /\ parse_result.rest = <<>>

-----------------------------------------------------------------------------
(* Properties of the server, stated on the request handled last *)

\* the request handled last is a GET of /file/<tail>
FileGet == request.method = "GET" /\ StartsWith(request.path, PATH_FILE_PREFIX)
\* a response was sent for it (the task did not panic)
Answered == request # NoRequest /\ response # NoResponse

RequestedTail == Drop(request.path, Len(PATH_FILE_PREFIX))
\* <<p>>, p the percent-decoded path, or <<>> when it does not decode
RequestedPath == percent_decode_utf8(RequestedTail)
\* the served-set entries whose relative_path equals p
EntriesForPath ==
    {rp \in served_files : rp.relative_path = components(RequestedPath[1])}
PathNotServed == FileGet /\ RequestedPath # <<>> /\ EntriesForPath = {}
PathServed    == FileGet /\ RequestedPath # <<>> /\ EntriesForPath # {}

\* the Range header is there and is no visible-ASCII text
RangeUnreadable == request.range # <<>> /\ to_str(request.range[1]) = <<>>
\* the Range header is there, is text, and parse_range gives this for it
RangeReadable == request.range # <<>> /\ to_str(request.range[1]) # <<>>
RangeParsed   == parse_range(request.range[1])

\* C1 (the claim as stated): every GET /file/<p> whose decoded path p is the
\* relative_path of no served-set entry is answered 404 with an empty body,
\* and no file is stat-ed or opened for it.
C1_NotServedIs404 ==
    PathNotServed =>
        /\ response.status = 404
        /\ response.body = NoBody
        /\ accessed = <<>>

\* C1 (amended): for every GET /file/<p> whose decoded path p is the
\* relative_path of no served-set entry, no file is stat-ed or opened and no
\* file byte is sent; the response is 404 with an empty body, unless the
\* request carries a Range header that is no visible-ASCII text, which is
\* answered 400 before the path is looked at.  Conversely every path any
\* request stats or opens is the `path` of the served-set entry whose
\* relative_path equals p.
C1_NoAccessOutsideServedSet ==
    /\ PathNotServed =>
          /\ accessed = <<>>
          /\ response.body.bytes = <<>>
          /\ IF RangeUnreadable
             THEN response.status = 400
             ELSE response.status = 404 /\ response.body = NoBody
    /\ \A i \in DOMAIN accessed :
          /\ PathServed
          /\ \E rp \in EntriesForPath : accessed[i].path = rp.path

\* C1 happens: a file that exists in the folder, but is in no served-set
\* entry, is asked for and the answer is 404
C1_Witness ==
    /\ PathNotServed
    /\ is_file(fs, Folder \o components(RequestedPath[1]))
    /\ response.status = 404
    /\ accessed = <<>>

\* C5 (the claim as stated): extract_served_files returns exactly the primary
\* path and every text-track path of every Video of the catalogue, so every
\* path the manifest lists can be fetched through GET /file/.
C5_ServedSetHasTextTracks ==
    pc \in {"bind", "serving"} =>
        /\ served_files =
              UNION { {v.path} \cup {v.text_tracks[l] : l \in DOMAIN v.text_tracks}
                      : v \in videos(catalogue) }
        /\ \A listed \in manifest_paths(catalogue) :
              find_served(served_files, listed) # {}

\* C7: a GET /file/<p>, p in the served-set, whose Range header parses to two
\* or more range-specs is answered exactly as the same request without a
\* Range header: never 400, 416 or 206 and never with a Content-Range
\* header, and when the file can be read, 200 with the whole file from
\* offset 0.
C7_SeveralRangesAsNone ==
    (PathServed /\ RangeReadable /\ RangeParsed.ok /\ Len(RangeParsed.val) >= 2
       /\ request # NoRequest) =>
        /\ <<response, accessed>>
              = LET plain == route([request EXCEPT !.range = <<>>], served_files,
                                   io_outcome)
                IN  <<plain.response, plain.calls>>
        /\ response.status \notin {400, 416, 206}
        /\ "Content-Range" \notin DOMAIN response.headers
        /\ (io_outcome.stat_ok /\ io_outcome.open_ok) =>
              /\ response.status = 200
              /\ response.body.bytes = FileBytes(io_outcome.file_len)

\* C7 happens: two range-specs, a file of MaxLen bytes sent whole
C7_Witness ==
    /\ PathServed
    /\ RangeReadable
    /\ RangeParsed.ok
    /\ Len(RangeParsed.val) = 2
    /\ response.status = 200
    /\ io_outcome.file_len = MaxLen
    /\ Len(response.body.bytes) = MaxLen

\* C8 (the claim as stated): every GET /file/ request with a client input
\* error, a path that does not decode or (the path being one that is served)
\* a Range header that is there but does not match the grammar, is answered
\* 400 with a non-empty text body.
C8_ClientErrorIs400WithText ==
    (FileGet /\ request # NoRequest
       /\ \/ RequestedPath = <<>>
          \/ PathServed /\ RangeUnreadable
          \/ PathServed /\ RangeReadable /\ ~RangeParsed.ok) =>
        /\ response.status = 400
        /\ response.body.text # ""

CommonHeaders ==
    /\ {"Accept-Ranges", "Access-Control-Allow-Origin",
        "Access-Control-Expose-Headers", "Access-Control-Max-Age"}
          \subseteq DOMAIN response.headers
    /\ response.headers["Accept-Ranges"] = "bytes"
    /\ response.headers["Access-Control-Allow-Origin"] = "*"
    /\ response.headers["Access-Control-Expose-Headers"]
          = "Content-Type, Accept-Encoding, Range"
    /\ response.headers["Access-Control-Max-Age"] = 172800

\* C9 (the claim as stated): every response to a request whose path starts
\* with /file/, whatever the method and the outcome, carries the four
\* common headers.
C9_EveryMethod ==
    (Answered /\ StartsWith(request.path, PATH_FILE_PREFIX)) => CommonHeaders

\* C9 (amended): every response to a GET or OPTIONS request whose path
\* starts with /file/, whatever the outcome (200, 206, 400, 404, 416, 500),
\* carries Accept-Ranges: bytes, Access-Control-Allow-Origin: *,
\* Access-Control-Expose-Headers and Access-Control-Max-Age: 172800.
C9_GetAndOptions ==
    (Answered /\ StartsWith(request.path, PATH_FILE_PREFIX)
       /\ request.method \in {"GET", "OPTIONS"}) => CommonHeaders

\* C9 happens: the status was rewritten to 500 after serve_file_range failed,
\* and the headers are still there
C9_Witness ==
    /\ FileGet
    /\ Answered
    /\ response.status = 500
    /\ accessed # <<>>
    /\ CommonHeaders

-----------------------------------------------------------------------------
(* Properties of start-up *)

Registered == pc \in {"scan", "scan_failed", "extract", "bind", "serving"}

\* C10: register_service returns Ok only after registration_callback has
\* cleared the flag; once DnsServiceRegister has answered pending, whatever
\* the interleaving of the two threads, register_service returns; a failed
\* registration aborts main for good; and no catalogue is built and no
\* request is handled before register_service has returned Ok.
C10_BlocksUntilRegistered ==
    /\ [](Registered => (callback_ran /\ ~registration_in_progress
                            /\ registration_mutex = "free"
                            /\ in_progress_mutex # "main"))
    /\ [](~Registered => (catalogue = <<>> /\ served_files = {}
                            /\ request = NoRequest))
    /\ [][pc = "aborted" => pc' = "aborted"]_vars
    /\ [][(pc = "dns_register" /\ cb_pc' # "scheduled") => pc' = "aborted"]_vars
    /\ (cb_pc = "scheduled") ~> Registered

\* C10 happens: register_service has returned Ok after it blocked in wait
\* and was woken without a notification first
C10_Witness ==
    /\ pc = "scan"
    /\ spurious > 0
    /\ callback_ran
    /\ cb_pc = "done"

-----------------------------------------------------------------------------
(* Properties of the catalogue *)

\* scan_directory has returned, with the catalogue or with an error
ScanReturned == pc \in {"scan_failed", "extract", "bind", "serving"}

\* the paths of the regular files of a tree, at any depth
RegularFiles(tree) ==
    UNION { { Append(d, tree.dirs[d][i].name) :
                i \in {j \in DOMAIN tree.dirs[d] : tree.dirs[d][j].type = "file"} }
          : d \in DOMAIN tree.dirs }

\* a video file whose same-stem metadata file is a regular file that
\* deserializes and whose duration parses
ValidPair(tree, path) ==
    /\ extension(path) = <<EXTENSION_MP4>>
    /\ is_file(tree, set_extension(path, EXTENSION_TOML))
    /\ tree.tomls[set_extension(path, EXTENSION_TOML)].kind = "valid"

ValidPairs(tree) == {path \in RegularFiles(tree) : ValidPair(tree, path)}

\* the number of Video items of a catalogue, at any depth
RECURSIVE CountVideos(_)
CountVideos(items) ==
    IF items = <<>> THEN 0
    ELSE (IF Head(items).type = "file" THEN 1
          ELSE CountVideos(Head(items).items))
         + CountVideos(Tail(items))

\* C11 (the claim as stated): for every directory tree the build of the
\* catalogue is not aborted by a file; a regular file has a Video item if and
\* only if it is a video file with a same-stem metadata file that is a
\* regular file, deserializes and has a duration that parses; there is one
\* Video item per such file, and one served-set entry per Video item.
C11_VideoIffValidPair ==
    ScanReturned =>
        /\ pc # "scan_failed"
        /\ \A path \in RegularFiles(fs) :
              (\E v \in videos(catalogue) : v.path.path = path)
                  <=> ValidPair(fs, path)
        /\ CountVideos(catalogue) = Cardinality(ValidPairs(fs))
        /\ pc \in {"bind", "serving"} =>
              Cardinality(served_files) = Cardinality(ValidPairs(fs))

-----------------------------------------------------------------------------
(* Properties of the Content-Range header *)

\* a response was sent to a request whose path starts with /file/
FileAnswered == Answered /\ StartsWith(request.path, PATH_FILE_PREFIX)

HasContentRange == "Content-Range" \in DOMAIN response.headers

\* C12 (the claim as stated): a finished /file/ response has a Content-Range
\* header if and only if its status is 206 or 416; the value is
\* `bytes start-end/L` for 206 and `bytes */L` for 416, L the file's length;
\* so a response whose status was rewritten to 500 after the open or the
\* seek failed has no Content-Range header.
C12_ContentRangeIffRangeStatus ==
    FileAnswered =>
        /\ HasContentRange <=> response.status \in {206, 416}
        /\ HasContentRange =>
              /\ response.headers["Content-Range"].unit = "bytes"
              /\ response.headers["Content-Range"].length = io_outcome.file_len
              /\ response.status = 206 =>
                    Len(response.headers["Content-Range"].range) = 2
              /\ response.status = 416 =>
                    response.headers["Content-Range"].range = <<>>

=============================================================================
